---- MODULE Spec2Model ----
(***************************************************************************)
(* Model of the NPC generator: app() of app.py (form submission, palette   *)
(* generation, the NPC creation loop with its relationship loop, the       *)
(* export loop) and class NPC of npc.py.                                   *)
(*                                                                         *)
(* Every call of the chat-completion API is two steps: the request is      *)
(* issued (it becomes `pending`), then it returns a response or fails.     *)
(* A Python dict is a sequence of <<key, value>> pairs with unique keys,   *)
(* in insertion order.  A name is a sequence of characters.  A diversity   *)
(* ratio is an integer number of hundredths.                               *)
(***************************************************************************)
EXTENDS Integers, Sequences, FiniteSets, TLC

(***************************************************************************)
(* Bounds of the model.                                                    *)
(***************************************************************************)
MaxNpcs == 3
MaxRaw == 3

(***************************************************************************)
(* Program constants.                                                      *)
(***************************************************************************)
downscale_factor == 1
MinNpcs == 1
SliderMaxNpcs == 20
NoRequest == [kind |-> "none"]
output_directory == "./characters"

(***************************************************************************)
(* Generic helpers.                                                        *)
(***************************************************************************)
Range(s) == {s[i] : i \in 1..Len(s)}

RECURSIVE Flatten(_)
Flatten(ss) == IF Len(ss) = 0 THEN <<>> ELSE Head(ss) \o Flatten(Tail(ss))

\* the injective sequences of length k over the positions 1..n
InjSeqs(n, k) ==
    {f \in [1..k -> 1..n] : \A i, j \in 1..k : i # j => f[i] # f[j]}

(***************************************************************************)
(* Python dict: insertion-ordered pairs <<key, value>>.                    *)
(***************************************************************************)
DictKeys(d) == {d[i][1] : i \in 1..Len(d)}
DictHas(d, k) == \E i \in 1..Len(d) : d[i][1] = k
DictGet(d, k) == d[CHOOSE i \in 1..Len(d) : d[i][1] = k][2]
\* d[k] = v
DictSet(d, k, v) ==
    IF DictHas(d, k)
    THEN [i \in 1..Len(d) |-> IF d[i][1] = k THEN <<k, v>> ELSE d[i]]
    ELSE Append(d, <<k, v>>)

(***************************************************************************)
(* Values the generation capability can return, and the form's inputs.     *)
(***************************************************************************)
Letters ==
    {"a","b","c","d","e","f","g","h","i","j","k","l","m",
     "n","o","p","q","r","s","t","u","v","w","x","y","z",
     "A","B","C","D","E","F","G","H","I","J","K","L","M",
     "N","O","P","Q","R","S","T","U","V","W","X","Y","Z"}

\* two names that differ only in a non-letter, and a third one
Names == {<<"a", "1">>, <<"a", " ">>, <<"b">>}

\* npc_character_sheet: an answer with every required field
CharacterDetails(nm) ==
    [name |-> nm, TLDR |-> "keeps the gate", speech_pattern |-> "terse",
     character_motivation |-> "duty", intellect |-> "smart",
     charisma |-> "pleasant", integrity |-> "ethical",
     resilience |-> "flexible", kindness |-> "caring"]

\* an answer without the required fields
MalformedDetails == [TLDR |-> "keeps the gate"]

CharacterAnswers == {CharacterDetails(nm) : nm \in Names} \cup {MalformedDetails}

RequiredCharacterKeys ==
    {"name", "TLDR", "speech_pattern", "character_motivation", "intellect",
     "charisma", "integrity", "resilience", "kindness"}

\* npc_relationship_sheet: the keys of an answer, in schema order
RelationshipKeys ==
    <<"relationship_type", "relationship_dynamic", "relationship_strength",
      "relationship_keywords", "tldr">>

\* (relationship_keywords, an array of 1-3 strings, is kept as one string)
EdgeFriend ==
    [relationship_type |-> "platonic", relationship_dynamic |-> "equal",
     relationship_strength |-> "strong", relationship_keywords |-> "trust",
     tldr |-> "part of friend group"]

\* the JSON object {}: an answer that ignores the schema
EmptyEdge == [k \in {} |-> ""]

RelationshipAnswers == {EdgeFriend, EmptyEdge}

SchemaConforming(edge) == Range(RelationshipKeys) \subseteq DOMAIN edge

\* npc_world_builder: a motivating entity keyed as the schema's properties
\* are named, and one keyed as the schema's "required" list says
EntityByProperties ==
    [motivating_name |-> "guild", motivating_description |-> "runs the trade"]
EntityByRequired == [name |-> "guild", description |-> "runs the trade"]

MotivatingProperties == {"motivating_name", "motivating_description"}
MotivatingRequired == {"name", "description"}

Palette(ps, os, ms) ==
    [personas |-> ps, occupations |-> os, motivating_entities |-> ms]

\* palettes answered in a full session: each list empty or of one element
SessionPalettes ==
    {Palette(ps, os, ms) :
        ps \in {<<>>, <<"stoic">>},
        os \in {<<>>, <<"smith">>},
        ms \in {<<>>, <<EntityByProperties>>, <<EntityByRequired>>}}

\* the sliders of a full session: <<npc_diversity, motivation_diversity,
\* character_diversity>> in hundredths
SessionRatios ==
    {<<100, 100, 100>>, <<0, 100, 100>>, <<100, 0, 100>>, <<100, 100, 0>>}

Form(n, ratios) ==
    [num_npcs |-> n, npc_diversity |-> ratios[1],
     motivation_diversity |-> ratios[2], character_diversity |-> ratios[3]]

(***************************************************************************)
(* State.                                                                  *)
(***************************************************************************)
VARIABLES
    pc,            \* position of app(): "form", "palette", "loop", "sheet",
                   \* "relate", "first", "back", "second", "export", "done",
                   \* "aborted"
    form,          \* the slider values
    game_details,  \* app.py:140
    raw,           \* generate_lists: the parsed answer before capping
    result,        \* app.py:151
    name_list,     \* app.py:152
    npc_nodes,     \* app.py:153
    character_i,   \* app.py:155 and app.py:171
    npc_node_idx,  \* app.py:166
    pending,       \* the request the capability is working on
    calls,         \* every request issued so far, in order
    answer,        \* the last answer of the capability
    conforming,    \* every relationship answer so far had the schema's keys
    store,         \* the files of ./characters: <<file name, content>>
    dirs,          \* the directories that exist
    npc_node,      \* the NPC whose constructor is running (app.py:160)
    error          \* the exception that ended the session

vars ==
    <<pc, form, game_details, raw, result, name_list, npc_nodes,
      character_i, npc_node_idx, pending, calls, answer, conforming,
      store, dirs, npc_node, error>>

None == [none |-> TRUE]

InitWith(counts, ratioSet) ==
    /\ pc = "form"
    /\ form \in {Form(n, r) : n \in counts, r \in ratioSet}
    /\ game_details = None
    /\ raw = None
    /\ result = None
    /\ name_list = <<>>
    /\ npc_nodes = <<>>
    /\ character_i = 0
    /\ npc_node_idx = 0
    /\ pending = NoRequest
    /\ calls = <<>>
    /\ answer = None
    /\ conforming = TRUE
    /\ store = <<>>
    /\ dirs = {}
    /\ npc_node = None
    /\ error = "none"

Init == InitWith(MinNpcs..MaxNpcs, SessionRatios)

(***************************************************************************)
(* app(): the form is submitted; generate_lists issues the palette call.   *)
(***************************************************************************)
\* variant: round() in place of int()
TargetCountRounded(n, ratio) ==
    (n * ratio + 50 * downscale_factor) \div (100 * downscale_factor)

\* int(num_npcs * ratio / downscale_factor), the ratio in hundredths
TargetCount(n, ratio) == (n * ratio) \div (100 * downscale_factor)

\* the description is a plain string literal, not an f-string: the braces
\* stay as written and the three arguments are not used
create_custom_function_template(num_personas, num_occupations, num_motivating_entities) ==
    [name |-> "npc_world_builder",
     description |->
        <<"Create ", "{num_personas}", " number of personas",
          "Create ", "{num_occupations}", " number of occupations",
          "Create ", "{num_motivating_entities}", " number of occupations">>]

GameDetails(f) ==
    [setting |-> "medieval", mood |-> "dark", feelings |-> "fear",
     storyboard |-> "none",
     num_occupations |-> TargetCount(f.num_npcs, f.character_diversity),
     num_characteristics |-> TargetCount(f.num_npcs, f.npc_diversity),
     num_motivating_entities |-> TargetCount(f.num_npcs, f.motivation_diversity),
     function_templates |->
        create_custom_function_template(
            TargetCount(f.num_npcs, f.character_diversity),
            TargetCount(f.num_npcs, f.npc_diversity),
            TargetCount(f.num_npcs, f.motivation_diversity))]

PaletteRequest(gd) ==
    [kind |-> "palette", has_context |-> FALSE, temperature |-> 0,
     setting |-> gd.setting, mood |-> gd.mood, feelings |-> gd.feelings,
     storyboard |-> gd.storyboard, functions |-> gd.function_templates]

\* a request goes out: who asks about whom (positions in npc_nodes, 0 when
\* there is none) is noted in calls
Issue(request, self, other) ==
    /\ pending' = request
    /\ calls' = Append(calls, [kind |-> request.kind, self |-> self,
                               other |-> other,
                               context |-> request.has_context])

Abort(exception) ==
    /\ pc' = "aborted"
    /\ error' = exception

Submit ==
    /\ pc = "form"
    /\ game_details' = GameDetails(form)
    /\ Issue(PaletteRequest(GameDetails(form)), 0, 0)
    /\ pc' = "palette"
    /\ UNCHANGED <<conforming, form, raw, result, name_list, npc_nodes,
                   character_i, npc_node_idx, answer, store, dirs,
                   npc_node, error>>

(***************************************************************************)
(* generate_lists: the answer is capped list by list.                      *)
(***************************************************************************)
Identity(n) == [i \in 1..n |-> i]

\* variant: replace=True
ChoiceWithReplacement(len, size) == [1..size -> 1..len]

\* np.random.choice(a, replace=False, size=size): the positions drawn
ChoiceWithoutReplacement(len, size) == InjSeqs(len, size)

\* the positions of list a kept by the cap `size`
Capped(a, size) ==
    IF Len(a) > size THEN ChoiceWithoutReplacement(Len(a), size)
    ELSE {Identity(Len(a))}

Take(a, idx) == [i \in 1..Len(idx) |-> a[idx[i]]]

generate_lists_fail ==
    /\ pc = "palette"
    /\ pending' = NoRequest
    /\ Abort("APIError")
    /\ UNCHANGED <<conforming, form, game_details, raw, result, name_list,
                   npc_nodes, character_i, npc_node_idx, calls, answer,
                   store, dirs, npc_node>>

generate_lists_return(answers) ==
    /\ pc = "palette"
    /\ \E dictionary \in answers :
        \E ip \in Capped(dictionary.personas, game_details.num_characteristics),
           io \in Capped(dictionary.occupations, game_details.num_occupations),
           im \in Capped(dictionary.motivating_entities,
                         game_details.num_motivating_entities) :
            /\ raw' = dictionary
            /\ answer' = dictionary
            /\ result' = Palette(Take(dictionary.personas, ip),
                                 Take(dictionary.occupations, io),
                                 Take(dictionary.motivating_entities, im))
    /\ pending' = NoRequest
    /\ pc' = "loop"
    /\ UNCHANGED <<conforming, form, game_details, name_list, npc_nodes, character_i,
                   npc_node_idx, calls, store, dirs, npc_node, error>>

(***************************************************************************)
(* json.dumps of a relations dict, as a sequence of tokens.                *)
(***************************************************************************)
Quoted(chars) == <<"\"">> \o chars \o <<"\"">>

Separator(i) == IF i > 1 THEN <<", ">> ELSE <<>>

DumpsEdge(edge) ==
    LET ks == SelectSeq(RelationshipKeys, LAMBDA k : k \in DOMAIN edge)
    IN  <<"{">>
        \o Flatten([i \in 1..Len(ks) |->
              Separator(i) \o Quoted(<<ks[i]>>) \o <<": ">>
              \o Quoted(<<edge[ks[i]]>>)])
        \o <<"}">>

DumpsEntry(name, edge) == Quoted(name) \o <<": ">> \o DumpsEdge(edge)

Dumps(relations) ==
    <<"{">>
    \o Flatten([i \in 1..Len(relations) |->
          Separator(i) \o DumpsEntry(relations[i][1], relations[i][2])])
    \o <<"}">>

(***************************************************************************)
(* class NPC.                                                              *)
(***************************************************************************)
\* variant: relations is one dict shared by the instances
NewNPCShared(persona, occupation, motivating_factor) ==
    [persona |-> persona, occupation |-> occupation,
     motivating_factor |-> motivating_factor,
     memory |-> <<>>,
     relations |-> IF Len(npc_nodes) > 0
                   THEN npc_nodes[Len(npc_nodes)].relations ELSE <<>>]

\* NPC.__init__ up to the call of generate_character_details
NewNPC(persona, occupation, motivating_factor) ==
    [persona |-> persona, occupation |-> occupation,
     motivating_factor |-> motivating_factor,
     memory |-> <<>>, relations |-> <<>>]

\* NPC.__init__ after the call: the identity fields are set
WithDetails(self, character_details) ==
    [persona |-> self.persona, occupation |-> self.occupation,
     motivating_factor |-> self.motivating_factor,
     memory |-> self.memory, relations |-> self.relations,
     name |-> character_details.name,
     tldr |-> character_details.TLDR,
     speech_pattern |-> character_details.speech_pattern,
     motivation |-> character_details.character_motivation,
     character_sheet |->
        [intellect |-> character_details.intellect,
         charisma |-> character_details.charisma,
         integrity |-> character_details.integrity,
         resilience |-> character_details.resilience,
         kindness |-> character_details.kindness]]

\* the letters "Find a name starting with" draws from
StartLetters == {"a", "b"}

\* variant: the request never carries the names, as with names=None
CharacterRequestNoNames(gd, self, has_names, other_names, letter) ==
    [kind |-> "sheet", has_context |-> FALSE, temperature |-> 7,
     setting |-> gd.setting, mood |-> gd.mood, feelings |-> gd.feelings,
     storyboard |-> gd.storyboard,
     persona |-> self.persona, occupation |-> self.occupation,
     motivating_name |-> self.motivating_factor.motivating_name,
     motivating_description |-> self.motivating_factor.motivating_description,
     has_names |-> FALSE, other_names |-> <<>>,
     letter |-> letter]

\* generate_character_details: the request (temperature in tenths)
CharacterRequest(gd, self, has_names, other_names, letter) ==
    [kind |-> "sheet", has_context |-> FALSE, temperature |-> 7,
     setting |-> gd.setting, mood |-> gd.mood, feelings |-> gd.feelings,
     storyboard |-> gd.storyboard,
     persona |-> self.persona, occupation |-> self.occupation,
     motivating_name |-> self.motivating_factor.motivating_name,
     motivating_description |-> self.motivating_factor.motivating_description,
     has_names |-> has_names, other_names |-> other_names,
     letter |-> letter]

Card(npc) ==
    [name |-> npc.name, tldr |-> npc.tldr,
     speech_pattern |-> npc.speech_pattern, motivation |-> npc.motivation,
     character_sheet |-> npc.character_sheet]

\* set_relation: the request; NPC 1 is self, NPC 2 is other_npc
RelationRequest(self, other_npc, has_context, extra_context) ==
    [kind |-> "relation", has_context |-> has_context, temperature |-> 7,
     npc1 |-> Card(self), npc2 |-> Card(other_npc),
     extra_context |-> extra_context, perspective |-> self.name]

\* variant: the entry is keyed by the NPC's own name
StoreRelationSelfKey(self, other_npc, dictionary) ==
    [self EXCEPT !.relations = DictSet(self.relations, self.name, dictionary)]

\* variant: the relations dict is replaced instead of updated
StoreRelationReset(self, other_npc, dictionary) ==
    [self EXCEPT !.relations = <<<<other_npc.name, dictionary>>>>]

\* variant: the answer is dropped
StoreRelationNothing(self, other_npc, dictionary) == self

\* variant: the answer is stored under both names
StoreRelationMutual(self, other_npc, dictionary) ==
    [self EXCEPT !.relations =
        DictSet(DictSet(self.relations, other_npc.name, dictionary),
                self.name, dictionary)]

\* variant: the answer is also put into the NPC's memory
StoreRelationRemember(self, other_npc, dictionary) ==
    [self EXCEPT !.relations = DictSet(self.relations, other_npc.name, dictionary),
                 !.memory = Append(self.memory, dictionary)]

\* set_relation, line 295: self.relations[other_npc.name] = dictionary
StoreRelation(self, other_npc, dictionary) ==
    [self EXCEPT !.relations = DictSet(self.relations, other_npc.name, dictionary)]

(***************************************************************************)
(* app(): the creation loop.                                               *)
(***************************************************************************)
\* np.random.choice(a) of a list: the elements it can return
Choice(a) == Range(a)

\* the newest NPC (npc_node after line 165) and the prior one in turn
Newest == Len(npc_nodes)

\* variant: the prior NPCs are taken latest first
PriorReversed == Len(npc_nodes) - 1 - npc_node_idx

\* npc_nodes[npc_node_idx], counted from 1
Prior == npc_node_idx + 1

\* variant: the loop ends one NPC early
LoopFinishedEarly(i, n) == i >= n - 1

\* range(num_npcs) is exhausted
LoopFinished(i, n) == i >= n

\* line 155: the loop is over, the export loop starts
CreationDone ==
    /\ pc = "loop"
    /\ LoopFinished(character_i, form.num_npcs)
    /\ character_i' = 0
    /\ pc' = "export"
    /\ UNCHANGED <<conforming, form, game_details, raw, result, name_list,
                   npc_nodes, npc_node_idx, pending, calls, answer, store,
                   dirs, npc_node, error>>

\* lines 156-158: a palette list is empty, np.random.choice raises
SelectEmpty ==
    /\ pc = "loop"
    /\ ~LoopFinished(character_i, form.num_npcs)
    /\ \/ result.personas = <<>>
       \/ result.occupations = <<>>
       \/ result.motivating_entities = <<>>
    /\ Abort("ValueError")
    /\ UNCHANGED <<conforming, form, game_details, raw, result, name_list,
                   npc_nodes, character_i, npc_node_idx, pending, calls,
                   answer, store, dirs, npc_node>>

NonEmptyPalette ==
    /\ result.personas # <<>>
    /\ result.occupations # <<>>
    /\ result.motivating_entities # <<>>

\* lines 156-162 and npc.py:123-129, 167-171: the motivating entity has
\* no key motivating_name, building the request raises
CreateKeyError ==
    /\ pc = "loop"
    /\ ~LoopFinished(character_i, form.num_npcs)
    /\ NonEmptyPalette
    /\ \E selected_persona \in Choice(result.personas),
          selected_occupation \in Choice(result.occupations),
          selected_motivation \in Choice(result.motivating_entities) :
        /\ ~(MotivatingProperties \subseteq DOMAIN selected_motivation)
        /\ npc_node' = NewNPC(selected_persona, selected_occupation,
                              selected_motivation)
    /\ Abort("KeyError")
    /\ UNCHANGED <<conforming, form, game_details, raw, result, name_list,
                   npc_nodes, character_i, npc_node_idx, pending, calls,
                   answer, store, dirs>>

\* lines 156-162 and npc.py:123-200: the character-sheet call goes out
CreateIssue ==
    /\ pc = "loop"
    /\ ~LoopFinished(character_i, form.num_npcs)
    /\ NonEmptyPalette
    /\ \E selected_persona \in Choice(result.personas),
          selected_occupation \in Choice(result.occupations),
          selected_motivation \in Choice(result.motivating_entities),
          letter \in StartLetters :
        LET self == NewNPC(selected_persona, selected_occupation,
                           selected_motivation)
        IN  /\ MotivatingProperties \subseteq DOMAIN selected_motivation
            /\ npc_node' = self
            /\ Issue(CharacterRequest(game_details, self,
                                      Len(name_list) # 0, name_list, letter),
                     character_i + 1, 0)
    /\ pc' = "sheet"
    /\ UNCHANGED <<conforming, form, game_details, raw, result, name_list,
                   npc_nodes, character_i, npc_node_idx, answer, store,
                   dirs, error>>

CreateFail ==
    /\ pc = "sheet"
    /\ pending' = NoRequest
    /\ Abort("APIError")
    /\ UNCHANGED <<conforming, form, game_details, raw, result, name_list,
                   npc_nodes, character_i, npc_node_idx, calls, answer,
                   store, dirs, npc_node>>

\* npc.py:136-146: the answer lacks a field __init__ reads
CreateMalformed ==
    /\ pc = "sheet"
    /\ \E character_details \in CharacterAnswers :
        /\ ~(RequiredCharacterKeys \subseteq DOMAIN character_details)
        /\ answer' = character_details
    /\ pending' = NoRequest
    /\ Abort("KeyError")
    /\ UNCHANGED <<conforming, form, game_details, raw, result, name_list,
                   npc_nodes, character_i, npc_node_idx, calls, store,
                   dirs, npc_node>>

\* npc.py:136-146 and app.py:163-165: the NPC is complete and appended
CreateReturn ==
    /\ pc = "sheet"
    /\ \E character_details \in CharacterAnswers :
        /\ RequiredCharacterKeys \subseteq DOMAIN character_details
        /\ answer' = character_details
        /\ name_list' = Append(name_list, character_details.name)
        /\ npc_nodes' = Append(npc_nodes, WithDetails(npc_node, character_details))
    /\ pending' = NoRequest
    /\ npc_node' = None
    /\ npc_node_idx' = 0
    /\ pc' = "relate"
    /\ UNCHANGED <<conforming, form, game_details, raw, result, character_i,
                   calls, store, dirs, error>>

(***************************************************************************)
(* app(): the relationship loop of the newest NPC, lines 166-168.          *)
(***************************************************************************)
\* variant: the loop stops one prior NPC short
PriorCountShort(nodes) == Len(nodes) - 2

\* variant: the loop also pairs the newest NPC with itself
PriorCountAll(nodes) == Len(nodes)

\* range(len(npc_nodes) - 1)
PriorCount(nodes) == Len(nodes) - 1

\* variant: the prior NPC's own relations are passed
SecondContextOfPrior(nodes, newest, prior) == Dumps(nodes[prior].relations)

\* line 168: json.dumps(npc_node.relations)
SecondContext(nodes, newest, prior) == Dumps(nodes[newest].relations)

RelateDone ==
    /\ pc = "relate"
    /\ npc_node_idx >= PriorCount(npc_nodes)
    /\ character_i' = character_i + 1
    /\ pc' = "loop"
    /\ UNCHANGED <<conforming, form, game_details, raw, result, name_list,
                   npc_nodes, npc_node_idx, pending, calls, answer, store,
                   dirs, npc_node, error>>

\* line 167: npc_node.set_relation(npc_nodes[npc_node_idx]) issues its call
FirstIssue ==
    /\ pc = "relate"
    /\ npc_node_idx < PriorCount(npc_nodes)
    /\ Issue(RelationRequest(npc_nodes[Newest], npc_nodes[Prior], FALSE, <<>>),
             Newest, Prior)
    /\ pc' = "first"
    /\ UNCHANGED <<conforming, form, game_details, raw, result, name_list,
                   npc_nodes, character_i, npc_node_idx, answer, store,
                   dirs, npc_node, error>>

RelationFail ==
    /\ pc \in {"first", "second"}
    /\ pending' = NoRequest
    /\ Abort("APIError")
    /\ UNCHANGED <<conforming, form, game_details, raw, result, name_list,
                   npc_nodes, character_i, npc_node_idx, calls, answer,
                   store, dirs, npc_node>>

\* line 167 returns: the newest NPC holds its view of the prior one
FirstReturn ==
    /\ pc = "first"
    /\ \E dictionary \in RelationshipAnswers :
        /\ answer' = dictionary
        /\ conforming' = (conforming /\ SchemaConforming(dictionary))
        /\ npc_nodes' = [npc_nodes EXCEPT ![Newest] =
                            StoreRelation(@, npc_nodes[Prior], dictionary)]
    /\ pending' = NoRequest
    /\ pc' = "back"
    /\ UNCHANGED <<form, game_details, raw, result, name_list,
                   character_i, npc_node_idx, calls, store, dirs, npc_node,
                   error>>

\* line 168: npc_nodes[npc_node_idx].set_relation(npc_node, json.dumps(...))
SecondIssue ==
    /\ pc = "back"
    /\ Issue(RelationRequest(npc_nodes[Prior], npc_nodes[Newest], TRUE,
                             SecondContext(npc_nodes, Newest, Prior)),
             Prior, Newest)
    /\ pc' = "second"
    /\ UNCHANGED <<conforming, form, game_details, raw, result, name_list,
                   npc_nodes, character_i, npc_node_idx, answer, store,
                   dirs, npc_node, error>>

\* line 168 returns: the prior NPC holds its view of the newest one
SecondReturn ==
    /\ pc = "second"
    /\ \E dictionary \in RelationshipAnswers :
        /\ answer' = dictionary
        /\ conforming' = (conforming /\ SchemaConforming(dictionary))
        /\ npc_nodes' = [npc_nodes EXCEPT ![Prior] =
                            StoreRelation(@, npc_nodes[Newest], dictionary)]
    /\ pending' = NoRequest
    /\ npc_node_idx' = npc_node_idx + 1
    /\ pc' = "relate"
    /\ UNCHANGED <<form, game_details, raw, result, name_list,
                   character_i, calls, store, dirs, npc_node, error>>

(***************************************************************************)
(* NPC.export_npc and the export loop, app.py:171-172.                     *)
(***************************************************************************)
\* variant: only blanks are replaced
SanitizeBlanks(name) ==
    [i \in 1..Len(name) |-> IF name[i] = " " THEN "_" ELSE name[i]]

\* variant: digits are kept, as with the pattern [^a-zA-Z0-9]
SanitizeKeepDigits(name) ==
    [i \in 1..Len(name) |->
        IF name[i] \in Letters
                        \cup {"0", "1", "2", "3", "4", "5", "6", "7", "8", "9"}
        THEN name[i] ELSE "_"]

\* re.sub('[^a-zA-Z]', '_', name)
Sanitize(name) ==
    [i \in 1..Len(name) |-> IF name[i] \in Letters THEN name[i] ELSE "_"]

\* variant: the name is used as it is
FilePathRaw(directory, name) == <<directory, "/">> \o name \o <<".json">>

\* os.path.join(output_directory, f"{...}.json")
FilePath(directory, name) ==
    <<directory, "/">> \o Sanitize(name) \o <<".json">>

\* npc_data, in the order json.dump writes its keys
NpcData(self) ==
    << <<"name", self.name>>, <<"tldr", self.tldr>>,
       <<"speech_pattern", self.speech_pattern>>,
       <<"motivation", self.motivation>>,
       <<"character_sheet", self.character_sheet>>,
       <<"relations", self.relations>> >>

\* variant: an existing file is left as it is
WriteFileExclusive(files, path, content) ==
    IF DictHas(files, path) THEN files ELSE DictSet(files, path, content)

\* variant: the file is opened for appending, a second record follows
WriteFileAppend(files, path, content) == Append(files, <<path, content>>)

\* open(file_path, "w") and json.dump
WriteFile(files, path, content) == DictSet(files, path, content)

\* NPC.export_npc(self, directory): the directory is made when absent, the
\* file is written; self is only read
export_npc(self, directory) ==
    /\ dirs' = dirs \cup {directory}
    /\ store' = WriteFile(store, FilePath(directory, self.name),
                          NpcData(self))

\* line 172; npc_nodes[character_i] raises when the list is too short
ExportNpc ==
    /\ pc = "export"
    /\ character_i < form.num_npcs
    /\ IF character_i < Len(npc_nodes)
       THEN /\ export_npc(npc_nodes[character_i + 1], output_directory)
            /\ character_i' = character_i + 1
            /\ UNCHANGED <<pc, error>>
       ELSE /\ Abort("IndexError")
            /\ UNCHANGED <<dirs, store, character_i>>
    /\ UNCHANGED <<conforming, form, game_details, raw, result, name_list,
                   npc_nodes, npc_node_idx, pending, calls, answer, npc_node>>

ExportDone ==
    /\ pc = "export"
    /\ character_i >= form.num_npcs
    /\ pc' = "done"
    /\ UNCHANGED <<conforming, form, game_details, raw, result, name_list,
                   npc_nodes, character_i, npc_node_idx, pending, calls,
                   answer, store, dirs, npc_node, error>>

(***************************************************************************)
(* A session of app().                                                     *)
(***************************************************************************)
Next ==
    \/ Submit
    \/ generate_lists_fail
    \/ generate_lists_return(SessionPalettes)
    \/ CreationDone
    \/ SelectEmpty
    \/ CreateKeyError
    \/ CreateIssue
    \/ CreateFail
    \/ CreateMalformed
    \/ CreateReturn
    \/ RelateDone
    \/ FirstIssue
    \/ RelationFail
    \/ FirstReturn
    \/ SecondIssue
    \/ SecondReturn
    \/ ExportNpc
    \/ ExportDone

Spec == Init /\ [][Next]_vars

(***************************************************************************)
(* generate_lists alone, over more sliders and longer answers.             *)
(***************************************************************************)
Ratios == {0, 50, 100}

PaletteRatios == Ratios \X Ratios \X Ratios

SeqsUpTo(S, n) == UNION {[1..k -> S] : k \in 0..n}

PaletteAnswers ==
    {Palette(ps, os, ms) :
        ps \in SeqsUpTo({"stoic", "jolly"}, MaxRaw),
        os \in {<<>>, <<"smith">>, <<"smith", "monk">>},
        ms \in {<<>>, <<EntityByProperties>>,
                <<EntityByProperties, EntityByRequired>>}}

InitPalette == InitWith(MinNpcs..MaxNpcs, PaletteRatios)

NextPalette ==
    \/ Submit
    \/ generate_lists_fail
    \/ generate_lists_return(PaletteAnswers)

SpecPalette == InitPalette /\ [][NextPalette]_vars

(***************************************************************************)
(* Properties of the relationship graph.                                   *)
(***************************************************************************)
Created == 1..Len(npc_nodes)

\* the NPCs whose creation step (factory call and relationship loop) is over
StepsCompleted ==
    IF pc \in {"export", "done"} THEN Len(npc_nodes) ELSE character_i

HasEntry(a, b) == DictHas(npc_nodes[a].relations, npc_nodes[b].name)
Entry(a, b) == DictGet(npc_nodes[a].relations, npc_nodes[b].name)

DistinctNames ==
    \A a, b \in Created : a # b => npc_nodes[a].name # npc_nodes[b].name

\* C1 (pair completeness): once the creation step of B is over, A.relations
\* has an entry under B.name and B.relations one under A.name, for every A
\* created before B; the entries are non-empty when every relationship
\* answer had the schema's keys.
C1_PairCompleteness ==
    \A a, b \in Created :
        (a < b /\ b <= StepsCompleted) =>
            /\ HasEntry(a, b)
            /\ HasEntry(b, a)
            /\ conforming =>
                /\ DOMAIN Entry(a, b) # {}
                /\ DOMAIN Entry(b, a) # {}

C1_Witness ==
    /\ pc = "sheet"
    /\ StepsCompleted = 2
    /\ conforming
    /\ HasEntry(1, 2)
    /\ HasEntry(2, 1)

EntriesKept ==
    \A i \in Created :
        \A k \in DictKeys(npc_nodes[i].relations) :
            DictHas(npc_nodes'[i].relations, k)

EntryChanged(i, k) ==
    DictGet(npc_nodes'[i].relations, k) # DictGet(npc_nodes[i].relations, k)

EntriesUnchanged ==
    \A i \in Created :
        \A k \in DictKeys(npc_nodes[i].relations) : ~EntryChanged(i, k)

\* an entry changes only under a name that two other NPCs bear
ChangedOnlyByCollision ==
    \A i \in Created :
        \A k \in DictKeys(npc_nodes[i].relations) :
            EntryChanged(i, k) =>
                /\ pc \in {"first", "second"}
                /\ \E j, o \in Created :
                    /\ j # i /\ o # i /\ j # o
                    /\ npc_nodes[j].name = k
                    /\ npc_nodes[o].name = k

\* every entry is keyed by the name of another NPC that exists
NoEarlyEntry ==
    \A i \in Created :
        \A k \in DictKeys(npc_nodes[i].relations) :
            \E j \in Created : j # i /\ npc_nodes[j].name = k

\* C2 as stated (edge stability): an entry of a relations map, once set, is
\* never removed and never changes its value, whatever names are returned,
\* and no entry is set before both NPCs exist.
C2_Original ==
    /\ [][EntriesKept /\ EntriesUnchanged]_vars
    /\ []NoEarlyEntry

\* C2 as amended: an entry, once set, is never removed; its value changes
\* only in a set_relation call whose other NPC bears the same name as an
\* NPC entered earlier (never when the names are pairwise distinct); no
\* entry is set before both NPCs exist.
C2_EdgeStability ==
    /\ [][EntriesKept /\ ChangedOnlyByCollision]_vars
    /\ []NoEarlyEntry

C2_Witness ==
    /\ pc = "back"
    /\ Len(npc_nodes) = 3
    /\ npc_node_idx = 1
    /\ npc_nodes[1].name = npc_nodes[2].name
    /\ Len(npc_nodes[3].relations) = 1

IdentityFields ==
    {"name", "tldr", "speech_pattern", "motivation", "character_sheet"}

\* the request calls[c] comes after the character-sheet request of NPC q
SheetBefore(c, q) ==
    \E d \in 1..(c - 1) : calls[d].kind = "sheet" /\ calls[d].self = q

RelationBefore(c, self, other) ==
    \E d \in 1..(c - 1) :
        /\ calls[d].kind = "relation"
        /\ calls[d].self = self
        /\ calls[d].other = other

\* C3 (within-pair ordering): the call from the new NPC N about the prior
\* NPC P is issued, and its answer stored in N.relations[P.name], before
\* the call from P about N is issued; no relationship call mentions an NPC
\* before its character-sheet call has returned and set its identity.
C3_WithinPairOrdering ==
    /\ \A c \in 1..Len(calls) :
        calls[c].kind = "relation" =>
            /\ \A q \in {calls[c].self, calls[c].other} :
                /\ SheetBefore(c, q)
                /\ q \in Created
                /\ IdentityFields \subseteq DOMAIN npc_nodes[q]
            /\ calls[c].context <=> calls[c].self < calls[c].other
            /\ calls[c].context =>
                RelationBefore(c, calls[c].other, calls[c].self)
            /\ ~calls[c].context =>
                ~RelationBefore(c, calls[c].other, calls[c].self)
    /\ pc \in {"back", "second"} =>
        /\ HasEntry(Newest, Prior)
        /\ Entry(Newest, Prior) = answer

C3_Witness ==
    /\ pc = "second"
    /\ Len(npc_nodes) = 3
    /\ npc_node_idx = 1

\* s contains sub as a contiguous run of tokens
IsInfix(sub, s) ==
    \E i \in 0..(Len(s) - Len(sub)) :
        \A j \in 1..Len(sub) : s[i + j] = sub[j]

\* C4 (perspective threading): the first call of a pair presents N as NPC 1
\* and P as NPC 2 without context; the second presents P as NPC 1 and N as
\* NPC 2 and its context contains the serialized edge the first call
\* returned, under P's name.
C4_PerspectiveThreading ==
    /\ pc = "first" =>
        /\ pending.kind = "relation"
        /\ ~pending.has_context
        /\ pending.extra_context = <<>>
        /\ pending.npc1 = Card(npc_nodes[Newest])
        /\ pending.npc2 = Card(npc_nodes[Prior])
    /\ pc = "second" =>
        /\ pending.kind = "relation"
        /\ pending.has_context
        /\ pending.npc1 = Card(npc_nodes[Prior])
        /\ pending.npc2 = Card(npc_nodes[Newest])
        /\ IsInfix(DumpsEntry(npc_nodes[Prior].name, answer),
                   pending.extra_context)

C4_Witness ==
    /\ pc = "second"
    /\ Len(npc_nodes) = 2
    /\ answer = EdgeFriend

Degree(i) == Len(npc_nodes[i].relations)

RECURSIVE DegreeSum(_)
DegreeSum(n) == IF n = 0 THEN 0 ELSE Degree(n) + DegreeSum(n - 1)

OtherNames(i) == {npc_nodes[j].name : j \in Created \ {i}}

\* the relations entries of the exported records
RecordDegrees == {Len(DictGet(store[f][2], "relations")) : f \in 1..Len(store)}

\* C5 as stated (edge count): a completed session of n NPCs has n*(n-1)
\* edges and n-1 entries in every relations map and every exported record,
\* whatever names are returned.
C5_Original ==
    pc = "done" =>
        /\ \A i \in Created : Degree(i) = form.num_npcs - 1
        /\ DegreeSum(Len(npc_nodes)) = form.num_npcs * (form.num_npcs - 1)
        /\ RecordDegrees = {form.num_npcs - 1}

\* C5 as amended: in a completed session every relations map holds one
\* entry per distinct name borne by the other NPCs (so does the exported
\* record); with pairwise distinct names that is n-1 entries per NPC and
\* n*(n-1) edges in total.
C5_EdgeCount ==
    pc = "done" =>
        /\ Len(npc_nodes) = form.num_npcs
        /\ \A i \in Created :
            /\ DictKeys(npc_nodes[i].relations) = OtherNames(i)
            /\ Degree(i) = Cardinality(OtherNames(i))
        /\ \A f \in 1..Len(store) :
            \E i \in Created :
                DictGet(store[f][2], "relations") = npc_nodes[i].relations
        /\ DistinctNames =>
            /\ \A i \in Created : Degree(i) = form.num_npcs - 1
            /\ DegreeSum(Len(npc_nodes)) = form.num_npcs * (form.num_npcs - 1)
            /\ RecordDegrees = {form.num_npcs - 1}

C5_Witness ==
    /\ pc = "done"
    /\ Len(npc_nodes) = 3
    /\ DistinctNames
    /\ DegreeSum(3) = 6

\* two names get the same record identifier
SameIdentifier(x, y) ==
    /\ Len(x) = Len(y)
    /\ \A p \in 1..Len(x) : (x[p] \in Letters \/ y[p] \in Letters) => x[p] = y[p]

IdentifierClasses ==
    {{j \in Created : SameIdentifier(npc_nodes[i].name, npc_nodes[j].name)} :
        i \in Created}

\* C6 as stated (record count): after the export loop the store holds
\* exactly n records, whatever names are returned.
C6_Original == pc = "done" => Len(store) = form.num_npcs

\* C6 as amended: after the export loop the store holds exactly one record
\* per distinct sanitized name; that is n records when no two names
\* sanitize to the same identifier.
C6_RecordCount ==
    pc = "done" =>
        /\ Len(store) = Cardinality(IdentifierClasses)
        /\ Cardinality(IdentifierClasses) = form.num_npcs =>
            Len(store) = form.num_npcs

C6_Witness ==
    /\ pc = "done"
    /\ Len(npc_nodes) = 2
    /\ npc_nodes[1].name # npc_nodes[2].name
    /\ SameIdentifier(npc_nodes[1].name, npc_nodes[2].name)
    /\ Len(store) = 1

CallCount(kind) == Cardinality({c \in 1..Len(calls) : calls[c].kind = kind})

\* C7 (no partial persistence): nothing is exported before the character
\* call and the relationship calls of every requested NPC have completed,
\* and a session in which a generation call failed has written no record.
C7_NoPartialPersistence ==
    /\ store # <<>> =>
        /\ pc \in {"export", "done"}
        /\ pending = NoRequest
        /\ Len(npc_nodes) = form.num_npcs
        /\ CallCount("sheet") = form.num_npcs
        /\ CallCount("relation") = form.num_npcs * (form.num_npcs - 1)
    /\ error = "APIError" => pc = "aborted"
    /\ pc = "aborted" => store = <<>> /\ dirs = {}

C7_Witness ==
    /\ pc = "aborted"
    /\ error = "APIError"
    /\ Len(npc_nodes) = 3
    /\ npc_node_idx = 1
    /\ store = <<>>

\* no list of the palette answer is longer than was asked for
UnderProduced ==
    /\ Len(raw.personas) <= game_details.num_characteristics
    /\ Len(raw.occupations) <= game_details.num_occupations
    /\ Len(raw.motivating_entities) <= game_details.num_motivating_entities

\* C8 (under-production is tolerated): when the palette answer has no list
\* longer than requested and no generation call fails, the session does
\* not abort and creates exactly the requested number of NPCs.
C8_UnderProductionTolerated ==
    /\ (pc = "aborted" /\ raw # None /\ UnderProduced) =>
        (error = "APIError" \/ answer = MalformedDetails)
    /\ pc = "done" => Len(npc_nodes) = form.num_npcs

\* C9 (ordering property): when the factory call of an NPC returns, its
\* relations map is empty; before the factory call of the next NPC is
\* issued, it holds an entry for every earlier NPC and every earlier NPC
\* holds an entry for it.
C9_OrderingProperty ==
    /\ pc = "sheet" => npc_node.relations = <<>>
    /\ (pc = "relate" /\ npc_node_idx = 0) => npc_nodes[Newest].relations = <<>>
    /\ pc \in {"loop", "sheet"} =>
        \A i, j \in Created : j < i => HasEntry(i, j) /\ HasEntry(j, i)

C9_Witness ==
    /\ pc = "relate"
    /\ npc_node_idx = 0
    /\ Len(npc_nodes) = 3
    /\ Len(npc_nodes[1].relations) >= 1
    /\ npc_nodes[3].relations = <<>>

(***************************************************************************)
(* Properties of generate_lists.                                           *)
(***************************************************************************)
CappedTo(in, out, target) ==
    /\ Len(out) <= target
    /\ IF Len(in) <= target
       THEN out = in
       ELSE /\ Len(out) = target
            /\ \E f \in InjSeqs(Len(in), target) : out = Take(in, f)

\* C10 (palette downsampling): each list of the palette is the answer's
\* list unchanged when that is no longer than its target, and otherwise a
\* list of exactly target length drawn from distinct positions of the
\* answer's list; so no list is longer than its target.
C10_PaletteDownsampling ==
    pc = "loop" =>
        /\ CappedTo(raw.personas, result.personas,
                    game_details.num_characteristics)
        /\ CappedTo(raw.occupations, result.occupations,
                    game_details.num_occupations)
        /\ CappedTo(raw.motivating_entities, result.motivating_entities,
                    game_details.num_motivating_entities)

C10_Witness ==
    /\ pc = "loop"
    /\ Len(raw.personas) = 3
    /\ raw.personas[1] = raw.personas[3]
    /\ game_details.num_characteristics = 2
    /\ Len(result.personas) = 2
    /\ Len(raw.occupations) = 1
    /\ result.occupations = raw.occupations


(***************************************************************************)
(* The form alone, over every slider position.                             *)
(***************************************************************************)
Hundredths == 0..100

TargetRatios == {<<r, r, r>> : r \in Hundredths} \cup PaletteRatios

InitTargets == InitWith(MinNpcs..SliderMaxNpcs, TargetRatios)

NextTargets == Submit

SpecTargets == InitTargets /\ [][NextTargets]_vars

(***************************************************************************)
(* Properties of the target counts.                                        *)
(***************************************************************************)
\* round(num / den), halves to the even neighbour and halves upwards
RoundHalfEven(num, den) ==
    LET q == num \div den
        r == num % den
    IN  IF 2 * r < den THEN q
        ELSE IF 2 * r > den THEN q + 1
        ELSE IF q % 2 = 0 THEN q ELSE q + 1

RoundHalfUp(num, den) == (2 * num + den) \div (2 * den)

IsRounded(t, n, ratio) ==
    t \in {RoundHalfEven(n * ratio, 100 * downscale_factor),
           RoundHalfUp(n * ratio, 100 * downscale_factor)}

\* t is the integer part of n * ratio / downscale_factor
IsTruncated(t, n, ratio) ==
    /\ 100 * downscale_factor * t <= n * ratio
    /\ n * ratio < 100 * downscale_factor * (t + 1)

\* C11 as stated (target palette sizes): every target size is
\* round(totalCount * ratio / downscaleFactor).
C11_Original ==
    pc = "palette" =>
        /\ IsRounded(game_details.num_characteristics, form.num_npcs,
                     form.npc_diversity)
        /\ IsRounded(game_details.num_occupations, form.num_npcs,
                     form.character_diversity)
        /\ IsRounded(game_details.num_motivating_entities, form.num_npcs,
                     form.motivation_diversity)

\* C11 as amended: every target size is totalCount * ratio / downscaleFactor
\* cut to its integer part (int(), not round()).
C11_TargetSizes ==
    pc = "palette" =>
        /\ IsTruncated(game_details.num_characteristics, form.num_npcs,
                       form.npc_diversity)
        /\ IsTruncated(game_details.num_occupations, form.num_npcs,
                       form.character_diversity)
        /\ IsTruncated(game_details.num_motivating_entities, form.num_npcs,
                       form.motivation_diversity)

C11_Witness ==
    /\ pc = "palette"
    /\ form.num_npcs = 20
    /\ form.npc_diversity = 99
    /\ game_details.num_characteristics = 19


\* the sliders by their labels: "Diversity of Occupations" (app.py:129),
\* "Diversity of Character Traits" (app.py:136) and "Diversity of
\* Motivations" (app.py:134)
OccupationDiversity == form.npc_diversity
PersonaDiversity == form.character_diversity
MotivationDiversity == form.motivation_diversity

\* C12 (ratio-to-list binding): the cap of the occupations list comes from
\* the occupation-diversity slider, the cap of the personas list from the
\* character/persona-diversity slider and the cap of the motivating
\* entities from the motivation-diversity slider, each from its own ratio
\* only.
C12_RatioBinding ==
    pc = "loop" =>
        /\ IsTruncated(game_details.num_occupations, form.num_npcs,
                       OccupationDiversity)
        /\ 100 * downscale_factor * Len(result.occupations)
                <= form.num_npcs * OccupationDiversity
        /\ IsTruncated(game_details.num_characteristics, form.num_npcs,
                       PersonaDiversity)
        /\ 100 * downscale_factor * Len(result.personas)
                <= form.num_npcs * PersonaDiversity
        /\ IsTruncated(game_details.num_motivating_entities, form.num_npcs,
                       MotivationDiversity)
        /\ 100 * downscale_factor * Len(result.motivating_entities)
                <= form.num_npcs * MotivationDiversity


(***************************************************************************)
(* NPC.export_npc alone: one NPC exported repeatedly, over more names, an  *)
(* absent or existing directory and an empty or filled store.              *)
(***************************************************************************)
MaxExports == 2

MiraJang2 == <<"M", "i", "r", "a", "-", "J", "a", "n", "g", " ", "2">>

ExportNames == Names \cup {MiraJang2, <<"Z", "_", "9", "z">>}

\* relations as the creation loop leaves them: entries keyed by name
ExportRelations ==
    { <<>>,
      << <<(<<"b">>), EdgeFriend>> >>,
      << <<(<<"b">>), EdgeFriend>>, <<(<<"a", " ">>), EmptyEdge>> >> }

\* an NPC after __init__ and the set_relation calls of its session
ExportNpcOf(nm, answer_details, relations) ==
    [WithDetails(NewNPC("stoic", "smith",
                        [motivating_name |-> "guild",
                         motivating_description |-> "trade"]),
                 answer_details)
        EXCEPT !.relations = relations]

ExportNpcs ==
    {ExportNpcOf(nm, CharacterDetails(nm), rel) :
        nm \in ExportNames, rel \in ExportRelations}

\* what an earlier export left under the path of self, and under another
StaleFile(self) ==
    <<FilePath(output_directory, self.name),
      NpcData(ExportNpcOf(self.name,
                  [CharacterDetails(self.name) EXCEPT !.TLDR = "old"],
                  <<>>))>>

OtherFile ==
    <<FilePath(output_directory, <<"c">>),
      NpcData(ExportNpcOf(<<"c">>, CharacterDetails(<<"c">>), <<>>))>>

ExportStores(self) ==
    {<<>>, <<OtherFile>>, <<StaleFile(self)>>, <<StaleFile(self), OtherFile>>}

InitExport ==
    /\ pc = "standalone"
    /\ npc_nodes \in {<<npc>> : npc \in ExportNpcs}
    /\ \/ dirs = {} /\ store = <<>>
       \/ dirs = {output_directory} /\ store \in ExportStores(npc_nodes[1])
    /\ character_i = 0
    /\ form = None
    /\ game_details = None
    /\ raw = None
    /\ result = None
    /\ name_list = <<>>
    /\ npc_node_idx = 0
    /\ pending = NoRequest
    /\ calls = <<>>
    /\ answer = None
    /\ conforming = TRUE
    /\ npc_node = None
    /\ error = "none"

\* npc_nodes[0].export_npc("./characters"), once more
ExportAgain ==
    /\ pc = "standalone"
    /\ character_i < MaxExports
    /\ export_npc(npc_nodes[1], output_directory)
    /\ character_i' = character_i + 1
    /\ UNCHANGED <<pc, form, game_details, raw, result, name_list, npc_nodes,
                   npc_node_idx, pending, calls, answer, conforming,
                   npc_node, error>>

NextExport == ExportAgain

SpecExport == InitExport /\ [][NextExport]_vars

\* the identifier of a record: its path without directory and extension
Identifier(path) == SubSeq(path, 3, Len(path) - 1)

\* the records written for an NPC of this name
RecordsOf(files, name) ==
    {f \in 1..Len(files) : DictGet(files[f][2], "name") = name}

FollowsRule(id, name) ==
    /\ Len(id) = Len(name)
    /\ \A i \in 1..Len(name) :
        IF name[i] \in Letters THEN id[i] = name[i] ELSE id[i] = "_"

\* C13 (sanitization rule): the record identifier produced by export_npc
\* has the length of the name, equals the name at every position holding a
\* letter of [A-Za-z] and holds an underscore at every other position.
C13_SanitizationRule ==
    (pc = "standalone" /\ character_i >= 1) =>
        /\ RecordsOf(store, npc_nodes[1].name) # {}
        /\ \A f \in RecordsOf(store, npc_nodes[1].name) :
            FollowsRule(Identifier(store[f][1]), npc_nodes[1].name)

C13_Witness ==
    /\ pc = "standalone"
    /\ character_i >= 1
    /\ npc_nodes[1].name = <<"Z", "_", "9", "z">>
    /\ dirs = {output_directory}

MiraRecords == {Identifier(store[f][1]) : f \in RecordsOf(store, MiraJang2)}

\* C14 as stated: "Mira-Jang 2" yields the identifier "Mira_Jang_2".
C14_Original ==
    (pc = "standalone" /\ character_i >= 1 /\ npc_nodes[1].name = MiraJang2)
        => MiraRecords =
            {<<"M", "i", "r", "a", "_", "J", "a", "n", "g", "_", "2">>}

\* C14 (sanitization example): exporting the NPC named "Mira-Jang 2" yields
\* the record identifier "Mira_Jang__": the hyphen, the blank and the digit
\* are each replaced by an underscore.
C14_SanitizationExample ==
    (pc = "standalone" /\ character_i >= 1 /\ npc_nodes[1].name = MiraJang2)
        => MiraRecords =
            {<<"M", "i", "r", "a", "_", "J", "a", "n", "g", "_", "_">>}

C14_Witness ==
    /\ pc = "standalone"
    /\ character_i >= 1
    /\ npc_nodes[1].name = MiraJang2
    /\ MiraRecords # {}

RecordKeys(content) == [k \in 1..Len(content) |-> content[k][1]]

RecordValues(content) == [k \in 1..Len(content) |-> content[k][2]]

\* exactly one record of self, with the six fields in order
OneRecord(files, self) ==
    /\ Cardinality(RecordsOf(files, self.name)) = 1
    /\ \A f \in RecordsOf(files, self.name) :
        /\ RecordKeys(files[f][2]) =
            <<"name", "tldr", "speech_pattern", "motivation",
              "character_sheet", "relations">>
        /\ RecordValues(files[f][2]) =
            <<self.name, self.tldr, self.speech_pattern, self.motivation,
              self.character_sheet, self.relations>>

\* C15 (export idempotence): every export leaves one record of the NPC with
\* the fields name, tldr, speech_pattern, motivation, character_sheet,
\* relations in that order and leaves the NPC unchanged; an export that
\* follows an export changes neither the store nor the directories.
C15_ExportIdempotence ==
    [][(pc = "standalone" /\ character_i' = character_i + 1) =>
            /\ npc_nodes' = npc_nodes
            /\ OneRecord(store', npc_nodes[1])
            /\ output_directory \in dirs'
            /\ character_i >= 1 => (store' = store /\ dirs' = dirs)]_vars

C15_Witness ==
    /\ pc = "standalone"
    /\ character_i >= 2
    /\ Len(store) = 2
    /\ npc_nodes[1].relations # <<>>


\* the second request of the pair, had the newest NPC's entry under key k
\* been the edge e
OtherSession(k, e) ==
    RelationRequest(
        npc_nodes[Prior],
        npc_nodes[Newest],
        TRUE,
        SecondContext([npc_nodes EXCEPT ![Newest].relations = DictSet(@, k, e)],
                      Newest, Prior))

\* C16 (cross-pair independence): both relationship requests of the pair
\* (N, P) are determined by the identity fields of N and P and by the N->P
\* edge only: the first carries the two cards and no context, and the second
\* is the same in every session that differs only in an edge N holds toward
\* another prior NPC.
C16_CrossPairIndependence ==
    /\ pc = "first" =>
        pending = [kind |-> "relation", has_context |-> FALSE,
                   temperature |-> 7, npc1 |-> Card(npc_nodes[Newest]),
                   npc2 |-> Card(npc_nodes[Prior]), extra_context |-> <<>>,
                   perspective |-> npc_nodes[Newest].name]
    /\ pc = "second" =>
        \A k \in DictKeys(npc_nodes[Newest].relations)
                    \ {npc_nodes[Prior].name} :
            \A e \in RelationshipAnswers : OtherSession(k, e) = pending


\* the relationship calls issued when NPC m was added: those of the pairs
\* whose later member is m
RelationCallsFor(m) ==
    Cardinality({c \in 1..Len(calls) :
                    /\ calls[c].kind = "relation"
                    /\ m \in {calls[c].self, calls[c].other}
                    /\ calls[c].self <= m
                    /\ calls[c].other <= m})

\* C17 (relationship call count): adding the (k+1)-th NPC issues exactly
\* 2k relationship calls, none for the first NPC and never more than 2k
\* while the step runs; a completed session of n NPCs has issued n(n-1)
\* relationship calls, n character-sheet calls and one palette call.
C17_CallCount ==
    /\ \A m \in Created :
        /\ RelationCallsFor(m) <= 2 * (m - 1)
        /\ m <= StepsCompleted => RelationCallsFor(m) = 2 * (m - 1)
    /\ \A c \in 1..Len(calls) :
        calls[c].kind = "relation" =>
            {calls[c].self, calls[c].other} \subseteq Created
    /\ pc \in {"export", "done"} =>
        /\ CallCount("relation") = form.num_npcs * (form.num_npcs - 1)
        /\ CallCount("sheet") = form.num_npcs
        /\ CallCount("palette") = 1
        /\ Len(calls) = form.num_npcs * form.num_npcs + 1

C17_Witness ==
    /\ pc = "done"
    /\ form.num_npcs = 3
    /\ RelationCallsFor(3) = 4
    /\ CallCount("relation") = 6


\* the calls of the log so far that belong to the pair of NPCs q and n
PairCalls(q, n) ==
    {c \in 1..Len(calls) :
        /\ calls[c].kind = "relation"
        /\ {calls[c].self, calls[c].other} = {q, n}}

IssuedCall == calls'[Len(calls')]

IssuedNew == IF IssuedCall.self > IssuedCall.other
             THEN IssuedCall.self ELSE IssuedCall.other

IssuedPrior == IF IssuedCall.self > IssuedCall.other
               THEN IssuedCall.other ELSE IssuedCall.self

\* C18 (strict serialization): a call is issued only when none is
\* outstanding, so at most one is outstanding at any time; a relationship
\* call is issued for the newest NPC N and a prior P only after both calls
\* of every earlier prior have returned and their answers are stored, and
\* before any call of a later prior: the priors are taken earliest first.
C18_StrictSerialization ==
    [][calls' # calls =>
        /\ pending = NoRequest
        /\ pending' # NoRequest
        /\ Len(calls') = Len(calls) + 1
        /\ SubSeq(calls', 1, Len(calls)) = calls
        /\ IssuedCall.kind = "relation" =>
            /\ IssuedNew = Newest
            /\ IssuedPrior < IssuedNew
            /\ \A q \in 1..(IssuedPrior - 1) :
                /\ Cardinality(PairCalls(q, IssuedNew)) = 2
                /\ HasEntry(IssuedNew, q)
                /\ HasEntry(q, IssuedNew)
            /\ \A q \in (IssuedPrior + 1)..(IssuedNew - 1) :
                PairCalls(q, IssuedNew) = {}
            /\ Cardinality(PairCalls(IssuedPrior, IssuedNew)) =
                IF IssuedCall.context THEN 1 ELSE 0]_vars

C18_Witness ==
    /\ pc = "first"
    /\ pending.kind = "relation"
    /\ Len(npc_nodes) = 3
    /\ npc_node_idx = 1
    /\ Cardinality(PairCalls(1, 3)) = 2


\* the names of the NPCs created so far, in creation order
PriorNames == [j \in 1..Len(npc_nodes) |-> npc_nodes[j].name]

\* C19 (prior-name threading): the character-sheet request of the NPC at
\* position i carries a list of prior names if and only if i >= 1, and the
\* list is the names of the NPCs at positions 0..i-1 in creation order,
\* one per prior NPC, duplicates kept.
C19_PriorNameThreading ==
    pc = "sheet" =>
        /\ pending.kind = "sheet"
        /\ Len(npc_nodes) = character_i
        /\ pending.has_names <=> character_i >= 1
        /\ pending.other_names = PriorNames
        /\ Len(pending.other_names) = character_i

C19_Witness ==
    /\ pc = "sheet"
    /\ character_i = 2
    /\ pending.has_names
    /\ pending.other_names = << <<"b">>, <<"b">> >>


\* a step in which a set_relation call returns or fails
SetRelationEnds == pc \in {"first", "second"} /\ pc' # pc

\* the NPC the call is made on, and the one it is about
CallerOf == IF pc = "first" THEN Newest ELSE Prior
CalleeOf == IF pc = "first" THEN Prior ELSE Newest

\* everything of an NPC but its relations
Rest(npc) ==
    [persona |-> npc.persona, occupation |-> npc.occupation,
     motivating_factor |-> npc.motivating_factor, memory |-> npc.memory,
     name |-> npc.name, tldr |-> npc.tldr,
     speech_pattern |-> npc.speech_pattern, motivation |-> npc.motivation,
     character_sheet |-> npc.character_sheet]

\* C20 (frame of set_relation): a call A.set_relation(B, ...) changes
\* nothing except the entry A.relations[B.name]: the other fields of A,
\* every other entry of A.relations, all of B, every other NPC, the names
\* and the palette are unchanged (a failing call changes nothing at all);
\* and no step changes the identity fields of a created NPC.
C20_FrameOfSetRelation ==
    [][/\ \A i \in Created :
            /\ i <= Len(npc_nodes')
            /\ Card(npc_nodes'[i]) = Card(npc_nodes[i])
       /\ SetRelationEnds =>
            /\ Len(npc_nodes') = Len(npc_nodes)
            /\ \A i \in Created \ {CallerOf} : npc_nodes'[i] = npc_nodes[i]
            /\ Rest(npc_nodes'[CallerOf]) = Rest(npc_nodes[CallerOf])
            /\ \A k \in DictKeys(npc_nodes[CallerOf].relations)
                            \ {npc_nodes[CalleeOf].name} :
                /\ DictHas(npc_nodes'[CallerOf].relations, k)
                /\ DictGet(npc_nodes'[CallerOf].relations, k)
                        = DictGet(npc_nodes[CallerOf].relations, k)
            /\ DictKeys(npc_nodes'[CallerOf].relations)
                    \subseteq DictKeys(npc_nodes[CallerOf].relations)
                                \cup {npc_nodes[CalleeOf].name}
            /\ pc' = "aborted" => npc_nodes' = npc_nodes
            /\ pc' # "aborted" =>
                DictGet(npc_nodes'[CallerOf].relations,
                        npc_nodes[CalleeOf].name) = answer'
            /\ UNCHANGED <<result, raw, game_details, form, name_list,
                           store, dirs>>]_vars

C20_Witness ==
    /\ pc = "relate"
    /\ Len(npc_nodes) = 3
    /\ npc_node_idx = 2
    /\ DistinctNames
    /\ Entry(2, 1) = EdgeFriend
    /\ Entry(2, 3) = EmptyEdge
    /\ answer = EmptyEdge


\* the instruction of the palette request with the counts p, o, m written
\* into it
Instruction(p, o, m) ==
    <<"Create ", ToString(p), " number of personas",
      "Create ", ToString(o), " number of occupations",
      "Create ", ToString(m), " number of occupations">>

\* C21 (palette request parametrization): the palette request carries the
\* three target counts in its instruction, and the count stated for each
\* list is the count to which that list is capped afterwards.
C21_PaletteRequestCounts ==
    pc = "palette" =>
        /\ pending.kind = "palette"
        /\ pending.functions.description =
            Instruction(game_details.num_characteristics,
                        game_details.num_occupations,
                        game_details.num_motivating_entities)


\* the NPCs exported so far, in creation order
Exported == IF pc = "done" THEN Created ELSE 1..character_i

\* the latest exported NPC whose name gets the identifier of NPC i
LastOfClass(i) ==
    CHOOSE j \in Exported :
        /\ SameIdentifier(npc_nodes[i].name, npc_nodes[j].name)
        /\ \A k \in Exported :
            SameIdentifier(npc_nodes[i].name, npc_nodes[k].name) => k <= j

HoldsDataOf(content, self) ==
    /\ RecordKeys(content) =
        <<"name", "tldr", "speech_pattern", "motivation",
          "character_sheet", "relations">>
    /\ RecordValues(content) =
        <<self.name, self.tldr, self.speech_pattern, self.motivation,
          self.character_sheet, self.relations>>

\* C22 (export collision outcome): the records are written in creation
\* order; the NPCs whose names get one identifier share a single record that
\* holds the data of the latest of them, no error is raised and every other
\* identifier keeps its own record.
C22_ExportCollision ==
    pc \in {"export", "done"} =>
        /\ error = "none"
        /\ Len(store) =
            Cardinality({LastOfClass(i) : i \in Exported})
        /\ \A i \in Exported :
            \E f \in 1..Len(store) :
                /\ HoldsDataOf(store[f][2], npc_nodes[LastOfClass(i)])
                /\ FollowsRule(Identifier(store[f][1]), npc_nodes[i].name)

C22_Witness ==
    /\ pc = "done"
    /\ Len(npc_nodes) = 3
    /\ npc_nodes[1].name = <<"a", "1">>
    /\ npc_nodes[2].name = <<"b">>
    /\ npc_nodes[3].name = <<"a", " ">>
    /\ Len(store) = 2
    /\ HoldsDataOf(store[1][2], npc_nodes[3])


\* every motivating entity of the palette has the keys the schema requires
SatisfiesRequired ==
    \A m \in Range(result.motivating_entities) :
        MotivatingRequired \subseteq DOMAIN m

\* the factory failed on a key of the motivating entity it was given
MissingKeyFailure ==
    /\ pc = "aborted"
    /\ error = "KeyError"
    /\ npc_node # None
    /\ ~(MotivatingProperties \subseteq DOMAIN npc_node.motivating_factor)

\* C23 (schema/consumer key agreement): a palette whose motivating entities
\* have the keys the world-builder schema requires is consumed by the
\* factory without a missing-key failure.
C23_KeyAgreement ==
    (result # None /\ SatisfiesRequired) => ~MissingKeyFailure


HasSelfEdge(i) == DictHas(npc_nodes[i].relations, npc_nodes[i].name)

\* C24 as stated: no NPC's relations map has an entry under its own name,
\* whatever names are returned.
C24_Original == \A i \in Created : ~HasSelfEdge(i)

\* C24 as amended (no self-edge): no relationship call pairs an NPC with
\* itself, so an NPC's relations map has an entry under its own name only
\* when another NPC created before the end of its step bears the same
\* name; with pairwise distinct names there is none.
C24_NoSelfEdge ==
    /\ \A c \in 1..Len(calls) :
        calls[c].kind = "relation" => calls[c].self # calls[c].other
    /\ \A i \in Created :
        HasSelfEdge(i) =>
            \E j \in Created \ {i} : npc_nodes[j].name = npc_nodes[i].name
    /\ DistinctNames => \A i \in Created : ~HasSelfEdge(i)

C24_Witness ==
    /\ pc = "export"
    /\ character_i = 0
    /\ Len(npc_nodes) = 3
    /\ DistinctNames
    /\ \A i \in Created : Degree(i) = 2 /\ ~HasSelfEdge(i)


(***************************************************************************)
(* NPC.add_to_memory and NPC.batch_summarize on one NPC.                   *)
(***************************************************************************)
MaxAdds == 4

MemoryLimit == 8

\* conversations: lists of messages, from none to more than the limit
Conversations ==
    { <<>>, <<"hi">>, <<"hi", "bye">>,
      <<"hi", "bye", "hi", "bye", "hi">>,
      <<"hi", "bye", "hi", "bye", "hi", "bye", "hi", "bye", "hi">> }

\* response.choices[0].message.content
Summaries == {"recap", ""}

\* chr(10).join(self.memory)
RECURSIVE Join(_)
Join(messages) ==
    IF Len(messages) = 0 THEN <<>>
    ELSE IF Len(messages) = 1 THEN <<messages[1]>>
    ELSE <<messages[1], "\n">> \o Join(Tail(messages))

SummaryRequest(self) ==
    [kind |-> "summary", has_context |-> FALSE, temperature |-> 0,
     history |-> Join(self.memory)]

\* self.memory.extend(conversation)
Extend(self, conversation) ==
    [self EXCEPT !.memory = self.memory \o conversation]

\* variant: the summary is made as soon as the limit is reached
NeedsSummaryAtLimit(self) == Len(self.memory) >= MemoryLimit

\* len(self.memory) > 8
NeedsSummary(self) == Len(self.memory) > MemoryLimit

InitMemory ==
    /\ pc = "idle"
    /\ npc_nodes \in
        {<<ExportNpcOf(nm, CharacterDetails(nm), <<>>)>> : nm \in Names}
    /\ character_i = 0
    /\ form = None
    /\ game_details = None
    /\ raw = None
    /\ result = None
    /\ name_list = <<>>
    /\ npc_node_idx = 0
    /\ pending = NoRequest
    /\ calls = <<>>
    /\ answer = None
    /\ conforming = TRUE
    /\ store = <<>>
    /\ dirs = {}
    /\ npc_node = None
    /\ error = "none"

\* add_to_memory up to the end, or up to the call of batch_summarize
add_to_memory ==
    /\ pc = "idle"
    /\ character_i < MaxAdds
    /\ character_i' = character_i + 1
    /\ \E conversation \in Conversations :
        LET self == Extend(npc_nodes[1], conversation)
        IN  /\ npc_nodes' = [npc_nodes EXCEPT ![1] = self]
            /\ IF NeedsSummary(self)
               THEN /\ Issue(SummaryRequest(self), 1, 0)
                    /\ pc' = "summarize"
               ELSE /\ UNCHANGED <<pending, calls, pc>>
    /\ UNCHANGED <<form, game_details, raw, result, name_list, npc_node_idx,
                   answer, conforming, store, dirs, npc_node, error>>

\* batch_summarize: the call returns, self.memory = [summary]
batch_summarize_return ==
    /\ pc = "summarize"
    /\ \E summary \in Summaries :
        /\ answer' = summary
        /\ npc_nodes' = [npc_nodes EXCEPT ![1].memory = <<summary>>]
    /\ pending' = NoRequest
    /\ pc' = "idle"
    /\ UNCHANGED <<form, game_details, raw, result, name_list, character_i,
                   npc_node_idx, calls, conforming, store, dirs, npc_node,
                   error>>

\* batch_summarize: the call raises, the memory stays as extended
batch_summarize_fail ==
    /\ pc = "summarize"
    /\ pending' = NoRequest
    /\ Abort("APIError")
    /\ UNCHANGED <<form, game_details, raw, result, name_list, npc_nodes,
                   character_i, npc_node_idx, calls, answer, conforming,
                   store, dirs, npc_node>>

NextMemory ==
    \/ add_to_memory
    \/ batch_summarize_return
    \/ batch_summarize_fail

SpecMemory == InitMemory /\ [][NextMemory]_vars

Memory == npc_nodes[1].memory

\* C25 (memory bound): between calls the memory holds at most 8 entries
\* as long as no summarization failed; a call of add_to_memory that pushes
\* the length above 8 has the memory summarized and leaves exactly one
\* entry, the summary; a call that does not leaves the old memory followed
\* by the new conversation.
C25_MemoryBound ==
    [][/\ pc' = "idle" => Len(Memory') <= 8
       /\ (pc = "idle" /\ character_i' # character_i) =>
            \E conversation \in Conversations :
                /\ Memory' = Memory \o conversation
                /\ pc' = IF Len(Memory) + Len(conversation) > 8
                         THEN "summarize" ELSE "idle"
       /\ (pc = "summarize" /\ pc' = "idle") =>
            /\ Len(Memory) > 8
            /\ Memory' = <<answer'>>
            /\ answer' \in Summaries]_vars

C25_Witness ==
    /\ pc = "idle"
    /\ error = "none"
    /\ Len(calls) = 1
    /\ answer = "recap"
    /\ Memory = <<"recap", "hi", "bye">>

====
